---- MODULE Spec2Model ----
(***************************************************************************)
(* Model of profile.py: the POWDER srsLTE over-the-air profile.  The       *)
(* script binds a parameter set, runs four frequency checks that report    *)
(* parameter errors to the portal context, verifies, and then assembles    *)
(* and prints a request: one link, one compute node and one radio node per *)
(* selected X310, one compute node per selected B210 site, and two         *)
(* spectrum reservations.                                                  *)
(*                                                                         *)
(* Frequencies are BANDWIDTH parameters in MHz that the portal rounds to   *)
(* the nearest kilohertz; they are held here as integers in kHz, so the    *)
(* source's 2500 is 2500 * 1000 and its separation of 1 is 1 * 1000.       *)
(* For kHz-rounded doubles in [2048, 4096) MHz the double subtraction and  *)
(* comparisons of the source agree with this integer arithmetic.           *)
(***************************************************************************)
EXTENDS Integers, Sequences, FiniteSets, TLC

VARIABLES pc, params, parameterErrors, request, i, printed

vars == <<pc, params, parameterErrors, request, i, printed>>

-----------------------------------------------------------------------------
(* Bounds of the model. *)

\* longest x310_radios selection list
MaxX310 == 2
\* longest b210_nodes selection list
MaxB210 == 2

-----------------------------------------------------------------------------
(* Program constants. *)

MHz == 1000

SRSLTE_IMG == "urn:publicid:IDN+emulab.net+image+PowderTeam:U18LL-SRSLTE"
SRSLTE_SRC_DS == "urn:publicid:IDN+emulab.net:powderteam+imdataset+srslte-src-v19"
DLDEFLOFREQ == 2620 * MHz
DLDEFHIFREQ == 2630 * MHz
ULDEFLOFREQ == 2500 * MHz
ULDEFHIFREQ == 2510 * MHz

node_type == <<"d740", "d430">>

rooftop_names ==
    <<"cellsdr1-browning", "cellsdr1-bes", "cellsdr1-dentistry",
      "cellsdr1-fm", "cellsdr1-honors", "cellsdr1-meb", "cellsdr1-smt",
      "cellsdr1-hospital", "cellsdr1-ustar">>

fixed_endpoint_aggregates ==
    <<"web", "bookstore", "humanities", "law73", "ebc", "madsen",
      "sagepoint", "moran", "cpg", "guesthouse">>

Range(s) == {s[k] : k \in DOMAIN s}

\* all sequences over S of length at most n
SeqUpTo(S, n) == UNION {[1..k -> S] : k \in 0..n}

-----------------------------------------------------------------------------
(* The parameter sets a run can be bound to.  Selections are drawn from    *)
(* the first two legal values of each enumeration, repetitions included.   *)

\* values around each edge of the uplink band, the defaults, and pairs that
\* are 0, 999, 1000 and 1001 kHz apart
UlFreqSamples ==
    {2500 * MHz - 1, ULDEFLOFREQ, ULDEFLOFREQ + 999, ULDEFLOFREQ + 1000,
     ULDEFHIFREQ, 2570 * MHz, 2570 * MHz + 1}

DlFreqSamples ==
    {2620 * MHz - 1, DLDEFLOFREQ, DLDEFLOFREQ + 999, DLDEFLOFREQ + 1000,
     DLDEFHIFREQ, 2690 * MHz, 2690 * MHz + 1}

x310_radios_choices ==
    SeqUpTo({[radio_name |-> rooftop_names[k]] : k \in {1, 2}}, MaxX310)

b210_nodes_choices ==
    SeqUpTo({[aggregate_id |-> fixed_endpoint_aggregates[k]] : k \in {1, 2}}, MaxB210)

ParamSpace ==
    [include_srslte_src : BOOLEAN,
     x310_pair_nodetype : Range(node_type),
     x310_radios : x310_radios_choices,
     b210_nodes : b210_nodes_choices,
     ul_freq_min : UlFreqSamples,
     ul_freq_max : UlFreqSamples,
     dl_freq_min : DlFreqSamples,
     dl_freq_max : DlFreqSamples]

-----------------------------------------------------------------------------
(* portal.ParameterError and portal.context.reportError *)

ParameterError(message, fields) == [message |-> message, fields |-> fields]

reportError(errors, perr) == Append(errors, perr)

UL_RANGE_MSG == "Band 7 uplink frequencies must be between 2500 and 2570 MHz"
DL_RANGE_MSG == "Band 7 downlink frequencies must be between 2620 and 2690 MHz"
SEPARATION_MSG == "Minimum and maximum frequencies must be separated by at least 1 MHz"

UL_FIELDS == <<"ul_freq_min", "ul_freq_max">>
DL_FIELDS == <<"dl_freq_min", "dl_freq_max">>

\* the uplink range test without its last comparison
ul_range_violated_no_upper_max(p) ==
    \/ p.ul_freq_min < 2500 * MHz
    \/ p.ul_freq_min > 2570 * MHz
    \/ p.ul_freq_max < 2500 * MHz

ul_range_violated(p) ==
    \/ p.ul_freq_min < 2500 * MHz
    \/ p.ul_freq_min > 2570 * MHz
    \/ p.ul_freq_max < 2500 * MHz
    \/ p.ul_freq_max > 2570 * MHz

\* the uplink separation test asking only that max is not below min
ul_separation_violated_no_width(p) == p.ul_freq_max - p.ul_freq_min < 0

ul_separation_violated(p) == p.ul_freq_max - p.ul_freq_min < 1 * MHz

\* the downlink range test with the uplink test's conjunction of the bounds
dl_range_violated_both(p) ==
    \/ p.dl_freq_min < 2620 * MHz /\ p.dl_freq_max < 2620 * MHz
    \/ p.dl_freq_min > 2690 * MHz /\ p.dl_freq_max > 2690 * MHz

dl_range_violated(p) ==
    \/ p.dl_freq_min < 2620 * MHz
    \/ p.dl_freq_min > 2690 * MHz
    \/ p.dl_freq_max < 2620 * MHz
    \/ p.dl_freq_max > 2690 * MHz

dl_separation_violated(p) == p.dl_freq_max - p.dl_freq_min < 1 * MHz

-----------------------------------------------------------------------------
(* The request graph.  request.resources holds the links, nodes and        *)
(* spectrum reservations in the order they were added.  An interface is    *)
(* owned by one node; a link refers to an interface by the position of its *)
(* owning node in request.resources (the object) and by its client_id.     *)

Execute(shell, command) == [shell |-> shell, command |-> command]

IPv4Address(address, netmask) == [address |-> address, netmask |-> netmask]

\* request.Link(name): a link with no interfaces yet
Link(name) ==
    [kind |-> "link", client_id |-> name, bandwidth |-> 0, interfaces |-> <<>>]

\* request.RawPC(name): a node with nothing set
RawPC(name) ==
    [kind |-> "node", client_id |-> name, hardware_type |-> "None",
     disk_image |-> "None", component_id |-> "None",
     component_manager_id |-> "None", services |-> <<>>,
     blockstores |-> <<>>, interfaces |-> <<>>]

\* node.Blockstore(name, mount) with its dataset set
Blockstore(name, mount, dataset) ==
    [name |-> name, mount |-> mount, dataset |-> dataset]

\* node.addInterface(name): named interfaces are "<node>:<name>", unnamed
\* ones "<node>:if<k>" with k the number of interfaces the node has
Interface(node, name) ==
    [client_id |-> node.client_id \o ":" \o
                   (IF name = "None" THEN "if" \o ToString(Len(node.interfaces))
                                     ELSE name),
     addresses |-> <<>>]

InterfaceRef(pos, intf) == [node |-> pos, client_id |-> intf.client_id]

Spectrum(low, high, power) ==
    [kind |-> "spectrum", frequency_low |-> low, frequency_high |-> high,
     power |-> power]

\* the blockstores the include_srslte_src option gives a compute node
\* (never any: the option is ignored)
srslte_src_blockstores_ignored(p, name) == <<>>

srslte_src_blockstores(p, name) ==
    IF p.include_srslte_src
    THEN <<Blockstore(name, "/opt/srslte", SRSLTE_SRC_DS)>>
    ELSE <<>>

\* link.addNode(node) without the step that puts the new interface in the link
link_addNode_unlinked(link, pos, node) ==
    [link |-> link,
     node |-> [node EXCEPT !.interfaces = Append(@, Interface(node, "None"))]]

\* link.addNode(node), node being at position pos of the request: adds an
\* unnamed interface to the node and that interface to the link
link_addNode(link, pos, node) ==
    LET intf == Interface(node, "None")
    IN  [link |-> [link EXCEPT !.interfaces = Append(@, InterfaceRef(pos, intf))],
         node |-> [node EXCEPT !.interfaces = Append(@, intf)]]

x310_node_pair(req, p, idx, x310_radio) ==
    LET base == Len(req.resources)
        radio_link == [Link("radio-link-" \o ToString(idx))
                           EXCEPT !.bandwidth = 10 * 1000 * 1000]
        node0 == [RawPC(x310_radio.radio_name \o "-comp") EXCEPT
                     !.hardware_type = p.x310_pair_nodetype,
                     !.disk_image = SRSLTE_IMG,
                     !.component_manager_id = "urn:publicid:IDN+emulab.net+authority+cm",
                     !.services = <<
                         Execute("bash", "/local/repository/bin/add-nat-and-ip-forwarding.sh"),
                         Execute("bash", "/local/repository/bin/update-config-files.sh"),
                         Execute("bash", "/local/repository/bin/tune-cpu.sh"),
                         Execute("bash", "/local/repository/bin/tune-sdr-iface.sh")>>]
        node1 == [node0 EXCEPT !.blockstores =
                     @ \o srslte_src_blockstores(p, "bs-comp-" \o ToString(idx))]
        node_radio_if == [Interface(node1, "usrp_if") EXCEPT !.addresses =
                             Append(@, IPv4Address("192.168.40.1", "255.255.255.0"))]
        node == [node1 EXCEPT !.interfaces = Append(@, node_radio_if)]
        link1 == [radio_link EXCEPT !.interfaces =
                     Append(@, InterfaceRef(base + 2, node_radio_if))]
        radio0 == [RawPC(x310_radio.radio_name \o "-x310") EXCEPT
                      !.component_id = x310_radio.radio_name,
                      !.component_manager_id = "urn:publicid:IDN+emulab.net+authority+cm"]
        added == link_addNode(link1, base + 3, radio0)
    IN  [req EXCEPT !.resources = @ \o <<added.link, node, added.node>>]

b210_nuc_pair(req, p, idx, b210_node) ==
    LET node0 == [RawPC("b210-" \o b210_node.aggregate_id \o "-" \o "nuc2") EXCEPT
                     !.component_manager_id =
                         "urn:publicid:IDN+" \o b210_node.aggregate_id \o
                         ".powderwireless.net+authority+cm",
                     !.component_id = "nuc2",
                     !.disk_image = SRSLTE_IMG,
                     !.services = <<
                         Execute("bash", "/local/repository/bin/update-config-files.sh"),
                         Execute("bash", "/local/repository/bin/tune-cpu.sh")>>]
        b210_nuc_pair_node ==
            [node0 EXCEPT !.blockstores =
                @ \o srslte_src_blockstores(p, "bs-nuc-" \o ToString(idx))]
    IN  [req EXCEPT !.resources = Append(@, b210_nuc_pair_node)]

requestSpectrum(req, low, high, power) ==
    [req EXCEPT !.resources = Append(@, Spectrum(low, high, power))]

-----------------------------------------------------------------------------
(* The state after portal.context.bindParameters() *)

NoRequest == [created |-> FALSE, resources |-> <<>>]

Init ==
    /\ pc = "check_ul_range"
    /\ params \in ParamSpace
    /\ parameterErrors = <<>>
    /\ request = NoRequest
    /\ i = 0
    /\ printed = <<>>

CheckUlRange ==
    /\ pc = "check_ul_range"
    /\ parameterErrors' =
           IF ul_range_violated(params)
           THEN reportError(parameterErrors, ParameterError(UL_RANGE_MSG, UL_FIELDS))
           ELSE parameterErrors
    /\ pc' = "check_ul_sep"
    /\ UNCHANGED <<params, request, i, printed>>

\* the uplink separation check as an elif of the uplink range check
CheckUlSeparation_elif ==
    /\ pc = "check_ul_sep"
    /\ parameterErrors' =
           IF ~ul_range_violated(params) /\ ul_separation_violated(params)
           THEN reportError(parameterErrors, ParameterError(SEPARATION_MSG, UL_FIELDS))
           ELSE parameterErrors
    /\ pc' = "check_dl_range"
    /\ UNCHANGED <<params, request, i, printed>>

CheckUlSeparation ==
    /\ pc = "check_ul_sep"
    /\ parameterErrors' =
           IF ul_separation_violated(params)
           THEN reportError(parameterErrors, ParameterError(SEPARATION_MSG, UL_FIELDS))
           ELSE parameterErrors
    /\ pc' = "check_dl_range"
    /\ UNCHANGED <<params, request, i, printed>>

CheckDlRange ==
    /\ pc = "check_dl_range"
    /\ parameterErrors' =
           IF dl_range_violated(params)
           THEN reportError(parameterErrors, ParameterError(DL_RANGE_MSG, DL_FIELDS))
           ELSE parameterErrors
    /\ pc' = "check_dl_sep"
    /\ UNCHANGED <<params, request, i, printed>>

CheckDlSeparation ==
    /\ pc = "check_dl_sep"
    /\ parameterErrors' =
           IF dl_separation_violated(params)
           THEN reportError(parameterErrors, ParameterError(SEPARATION_MSG, DL_FIELDS))
           ELSE parameterErrors
    /\ pc' = "verify"
    /\ UNCHANGED <<params, request, i, printed>>

\* verifyParameters that returns to the script whatever was reported
verifyParameters_returns ==
    /\ pc = "verify"
    /\ pc' = "make_request"
    /\ UNCHANGED <<params, parameterErrors, request, i, printed>>

\* verifyParameters ends the run when any error has been reported
verifyParameters ==
    /\ pc = "verify"
    /\ pc' = IF Len(parameterErrors) > 0 THEN "exit" ELSE "make_request"
    /\ UNCHANGED <<params, parameterErrors, request, i, printed>>

makeRequestRSpec ==
    /\ pc = "make_request"
    /\ request' = [created |-> TRUE, resources |-> <<>>]
    /\ i' = 0
    /\ pc' = "x310_loop"
    /\ UNCHANGED <<params, parameterErrors, printed>>

\* one iteration of: for i, x310_radio in enumerate(params.x310_radios)
X310LoopBody ==
    /\ pc = "x310_loop"
    /\ i < Len(params.x310_radios)
    /\ request' = x310_node_pair(request, params, i, params.x310_radios[i + 1])
    /\ i' = i + 1
    /\ UNCHANGED <<pc, params, parameterErrors, printed>>

X310LoopEnd ==
    /\ pc = "x310_loop"
    /\ i >= Len(params.x310_radios)
    /\ i' = 0
    /\ pc' = "b210_loop"
    /\ UNCHANGED <<params, parameterErrors, request, printed>>

\* the fixed-endpoint loop calling the rooftop builder
B210LoopBody_x310_builder ==
    /\ pc = "b210_loop"
    /\ i < Len(params.b210_nodes)
    /\ request' = x310_node_pair(request, params, i,
                                 [radio_name |-> params.b210_nodes[i + 1].aggregate_id])
    /\ i' = i + 1
    /\ UNCHANGED <<pc, params, parameterErrors, printed>>

\* one iteration of: for i, b210_node in enumerate(params.b210_nodes)
B210LoopBody ==
    /\ pc = "b210_loop"
    /\ i < Len(params.b210_nodes)
    /\ request' = b210_nuc_pair(request, params, i, params.b210_nodes[i + 1])
    /\ i' = i + 1
    /\ UNCHANGED <<pc, params, parameterErrors, printed>>

B210LoopEnd ==
    /\ pc = "b210_loop"
    /\ i >= Len(params.b210_nodes)
    /\ pc' = "spectrum_ul"
    /\ UNCHANGED <<params, parameterErrors, request, i, printed>>

\* the uplink reservation with its two bounds exchanged
RequestSpectrumUl_exchanged ==
    /\ pc = "spectrum_ul"
    /\ request' = requestSpectrum(request, params.ul_freq_max, params.ul_freq_min, 0)
    /\ pc' = "spectrum_dl"
    /\ UNCHANGED <<params, parameterErrors, i, printed>>

RequestSpectrumUl ==
    /\ pc = "spectrum_ul"
    /\ request' = requestSpectrum(request, params.ul_freq_min, params.ul_freq_max, 0)
    /\ pc' = "spectrum_dl"
    /\ UNCHANGED <<params, parameterErrors, i, printed>>

RequestSpectrumDl ==
    /\ pc = "spectrum_dl"
    /\ request' = requestSpectrum(request, params.dl_freq_min, params.dl_freq_max, 0)
    /\ pc' = "print"
    /\ UNCHANGED <<params, parameterErrors, i, printed>>

\* the request document is written out: one document holding the request's
\* resources as they are at this point
printRequestRSpec ==
    /\ pc = "print"
    /\ printed' = Append(printed, request.resources)
    /\ pc' = "done"
    /\ UNCHANGED <<params, parameterErrors, request, i>>

Next ==
    \/ CheckUlRange
    \/ CheckUlSeparation
    \/ CheckDlRange
    \/ CheckDlSeparation
    \/ verifyParameters
    \/ makeRequestRSpec
    \/ X310LoopBody
    \/ X310LoopEnd
    \/ B210LoopBody
    \/ B210LoopEnd
    \/ RequestSpectrumUl
    \/ RequestSpectrumDl
    \/ printRequestRSpec

Spec == Init /\ [][Next]_vars

-----------------------------------------------------------------------------
(* The request one run of lines 350-359 assembles from a parameter set. *)

RECURSIVE x310_loop(_, _, _)
x310_loop(req, p, n) ==
    IF n = 0 THEN req
    ELSE x310_node_pair(x310_loop(req, p, n - 1), p, n - 1, p.x310_radios[n])

RECURSIVE b210_loop(_, _, _)
b210_loop(req, p, n) ==
    IF n = 0 THEN req
    ELSE b210_nuc_pair(b210_loop(req, p, n - 1), p, n - 1, p.b210_nodes[n])

assembled_request(p) ==
    LET made == [created |-> TRUE, resources |-> <<>>]
        with_x310 == x310_loop(made, p, Len(p.x310_radios))
        with_b210 == b210_loop(with_x310, p, Len(p.b210_nodes))
        with_ul == requestSpectrum(with_b210, p.ul_freq_min, p.ul_freq_max, 0)
    IN  requestSpectrum(with_ul, p.dl_freq_min, p.dl_freq_max, 0)

-----------------------------------------------------------------------------
(* Vocabulary of the properties. *)

UlBand == (2500 * MHz)..(2570 * MHz)
DlBand == (2620 * MHz)..(2690 * MHz)

UlOutside == params.ul_freq_min \notin UlBand \/ params.ul_freq_max \notin UlBand
DlOutside == params.dl_freq_min \notin DlBand \/ params.dl_freq_max \notin DlBand
UlTooNarrow == params.ul_freq_max - params.ul_freq_min < 1 * MHz
DlTooNarrow == params.dl_freq_max - params.dl_freq_min < 1 * MHz

UlRangeError == ParameterError(UL_RANGE_MSG, UL_FIELDS)
UlSeparationError == ParameterError(SEPARATION_MSG, UL_FIELDS)
DlRangeError == ParameterError(DL_RANGE_MSG, DL_FIELDS)
DlSeparationError == ParameterError(SEPARATION_MSG, DL_FIELDS)

Reported(perr) == \E k \in DOMAIN parameterErrors : parameterErrors[k] = perr

ValidationPcs == {"check_ul_range", "check_ul_sep", "check_dl_range", "check_dl_sep"}

IsLink(r) == r.kind = "link"
IsNode(r) == r.kind = "node"
IsSpectrum(r) == r.kind = "spectrum"
IsRadioNode(r) == IsNode(r) /\ r.component_id \in Range(rooftop_names)
IsPairedCompute(r) == IsNode(r) /\ r.hardware_type \in Range(node_type)
IsFixedCompute(r) == IsNode(r) /\ r.component_id = "nuc2"

Count(res, P(_)) == Cardinality({k \in DOMAIN res : P(res[k])})

StripMounts(res) ==
    [k \in DOMAIN res |->
        IF IsNode(res[k]) THEN [res[k] EXCEPT !.blockstores = <<>>] ELSE res[k]]

-----------------------------------------------------------------------------
(* Properties. *)

\* C1: once the uplink range check has run, whenever ul_freq_min or
\* ul_freq_max lies outside [2500, 2570] MHz the uplink range error, with
\* field list exactly ul_freq_min, ul_freq_max, has been reported, whatever
\* the downlink values are.
C1_UlRangeErrorReported ==
    (pc # "check_ul_range" /\ UlOutside) => Reported(UlRangeError)

\* the case of C1: only ul_freq_max is out of band (above it), the downlink
\* bounds are out of band too, and the run has ended with the error reported
C1_Witness ==
    /\ pc = "exit"
    /\ params.ul_freq_min \in UlBand
    /\ params.ul_freq_max > 2570 * MHz
    /\ DlOutside
    /\ Reported(UlRangeError)

\* C2: once the downlink range check has run, whenever dl_freq_min or
\* dl_freq_max lies outside [2620, 2690] MHz the downlink range error, with
\* field list exactly dl_freq_min, dl_freq_max, has been reported, whatever
\* the uplink values are.
C2_DlRangeErrorReported ==
    (pc \notin {"check_ul_range", "check_ul_sep", "check_dl_range"} /\ DlOutside)
        => Reported(DlRangeError)

\* the case of C2: only dl_freq_min is out of band (below it) while the
\* uplink bounds are out of band as well
C2_Witness ==
    /\ pc = "exit"
    /\ params.dl_freq_min < 2620 * MHz
    /\ params.dl_freq_max \in DlBand
    /\ UlOutside
    /\ Reported(DlRangeError)

\* C3: for each bound pair, once its separation check has run, the
\* separation error naming that pair's two fields has been reported exactly
\* when max - min < 1 MHz (max = min and max < min included).
C3_SeparationErrors ==
    /\ pc \notin {"check_ul_range", "check_ul_sep"}
           => (Reported(UlSeparationError) <=> UlTooNarrow)
    /\ pc \notin ValidationPcs
           => (Reported(DlSeparationError) <=> DlTooNarrow)

\* the case of C3: uplink bounds 999 kHz apart and in band, downlink max
\* below min, both separation errors reported
C3_Witness ==
    /\ pc = "exit"
    /\ params.ul_freq_max - params.ul_freq_min = 999
    /\ ~UlOutside
    /\ params.dl_freq_max < params.dl_freq_min
    /\ Reported(UlSeparationError)
    /\ Reported(DlSeparationError)

\* the errors of the violated checks, in the order of the checks
C4_Expected ==
    (IF UlOutside THEN <<UlRangeError>> ELSE <<>>) \o
    (IF UlTooNarrow THEN <<UlSeparationError>> ELSE <<>>) \o
    (IF DlOutside THEN <<DlRangeError>> ELSE <<>>) \o
    (IF DlTooNarrow THEN <<DlSeparationError>> ELSE <<>>)

\* C4: when the verification step runs, and from then on, the reported
\* errors are exactly one per violated check of the four, in the order of
\* the checks, and none for a check that holds; the defaults
\* 2500/2510/2620/2630 report none.
C4_AllViolationsCollected ==
    pc \notin ValidationPcs =>
        /\ parameterErrors = C4_Expected
        /\ (/\ params.ul_freq_min = 2500 * MHz /\ params.ul_freq_max = 2510 * MHz
            /\ params.dl_freq_min = 2620 * MHz /\ params.dl_freq_max = 2630 * MHz)
               => parameterErrors = <<>>

\* the case of C4: all four checks violated and all four errors present
\* when verification is about to run
C4_Witness ==
    /\ pc = "verify"
    /\ UlOutside /\ UlTooNarrow /\ DlOutside /\ DlTooNarrow
    /\ Len(parameterErrors) = 4

\* C5: in a run with at least one reported error no request is created, no
\* builder runs, no spectrum reservation is appended and nothing is printed:
\* the run is still validating, about to verify, or has exited.
C5_NoAssemblyAfterError ==
    Len(parameterErrors) > 0 =>
        /\ pc \in ValidationPcs \cup {"verify", "exit"}
        /\ request = NoRequest
        /\ printed = <<>>

\* the case of C5: a run with selections to assemble has exited on an error
C5_Witness ==
    /\ pc = "exit"
    /\ Len(parameterErrors) > 0
    /\ Len(params.x310_radios) > 0
    /\ Len(params.b210_nodes) > 0

\* C6: every printed request holds exactly two spectrum reservations, they
\* are its last two resources, the first is (ul_freq_min, ul_freq_max) and
\* the second (dl_freq_min, dl_freq_max); the first lies in [2500, 2570]
\* MHz, the second in [2620, 2690] MHz, and each is at least 1 MHz wide.
C6_SpectrumReservations ==
    \A d \in DOMAIN printed :
        LET doc == printed[d]
            n == Len(doc)
        IN  /\ n >= 2
            /\ {k \in DOMAIN doc : IsSpectrum(doc[k])} = {n - 1, n}
            /\ doc[n - 1].frequency_low = params.ul_freq_min
            /\ doc[n - 1].frequency_high = params.ul_freq_max
            /\ doc[n].frequency_low = params.dl_freq_min
            /\ doc[n].frequency_high = params.dl_freq_max
            /\ doc[n - 1].frequency_low \in UlBand
            /\ doc[n - 1].frequency_high \in UlBand
            /\ doc[n].frequency_low \in DlBand
            /\ doc[n].frequency_high \in DlBand
            /\ doc[n - 1].frequency_high - doc[n - 1].frequency_low >= 1 * MHz
            /\ doc[n].frequency_high - doc[n].frequency_low >= 1 * MHz

\* the case of C6: a printed request with nodes before its reservations
C6_Witness ==
    /\ pc = "done"
    /\ Len(printed) = 1
    /\ Len(printed[1]) > 2
    /\ IsSpectrum(printed[1][Len(printed[1])])

\* C7: no two nodes of the request have the same name.
C7_NodeNamesUnique ==
    \A a, b \in DOMAIN request.resources :
        (a # b /\ IsNode(request.resources[a]) /\ IsNode(request.resources[b]))
            => request.resources[a].client_id # request.resources[b].client_id

\* C8: with n selected rooftop radios and m selected fixed-endpoint sites,
\* the rooftop loop leaves n radio nodes, n paired compute nodes and n
\* links; each fixed-endpoint builder call adds one fixed-endpoint compute
\* node and no radio node or link; the finished and the printed request hold
\* these 3n + m resources and 2 spectrum reservations.
C8_ResourceCounts ==
    LET res == request.resources
        n == Len(params.x310_radios)
        m == Len(params.b210_nodes)
    IN  pc \in {"b210_loop", "spectrum_ul", "spectrum_dl", "print", "done"} =>
            /\ Count(res, IsRadioNode) = n
            /\ Count(res, IsPairedCompute) = n
            /\ Count(res, IsLink) = n
            /\ Count(res, IsFixedCompute) = IF pc = "b210_loop" THEN i ELSE m
            /\ pc \in {"print", "done"} =>
                   /\ Count(res, IsSpectrum) = 2
                   /\ Len(res) = 3 * n + m + 2
            /\ \A d \in DOMAIN printed : printed[d] = res

\* the case of C8: the run for "cellsdr1-browning" and "web" has printed
C8_Witness ==
    /\ pc = "done"
    /\ params.x310_radios = <<[radio_name |-> "cellsdr1-browning"]>>
    /\ params.b210_nodes = <<[aggregate_id |-> "web"]>>
    /\ Len(printed) = 1

\* C9: the printed request and the request of the same parameters with
\* include_srslte_src inverted differ only in storage mounts: the one with
\* the flag set has exactly one mount on every compute node and none on a
\* radio node, the one with the flag clear has none at all.
C9_SourceMounts ==
    \A d \in DOMAIN printed :
        LET twin == assembled_request(
                        [params EXCEPT !.include_srslte_src = ~@]).resources
            on == IF params.include_srslte_src THEN printed[d] ELSE twin
            off == IF params.include_srslte_src THEN twin ELSE printed[d]
        IN  /\ \A k \in DOMAIN on :
                   IsNode(on[k]) =>
                       Len(on[k].blockstores) =
                           IF IsPairedCompute(on[k]) \/ IsFixedCompute(on[k])
                           THEN 1 ELSE 0
            /\ \A k \in DOMAIN off : IsNode(off[k]) => off[k].blockstores = <<>>
            /\ StripMounts(on) = StripMounts(off)

\* the case of C9: a printed request with the flag set and nodes of all
\* three sorts
C9_Witness ==
    /\ pc = "done"
    /\ params.include_srslte_src
    /\ Len(params.x310_radios) > 0
    /\ Len(params.b210_nodes) > 0
    /\ \E k \in DOMAIN printed[1] :
           IsNode(printed[1][k]) /\ Len(printed[1][k].blockstores) = 1

\* C10: every link has exactly two interfaces: the usrp_if interface of the
\* paired compute node and an interface of the radio node that the same
\* builder call added right after the link; no interface is in two links.
C10_LinksJoinPairs ==
    LET res == request.resources
        links == {k \in DOMAIN res : IsLink(res[k])}
    IN  /\ \A k \in links :
               /\ Len(res[k].interfaces) = 2
               /\ k + 2 <= Len(res)
               /\ IsPairedCompute(res[k + 1])
               /\ IsRadioNode(res[k + 2])
               /\ res[k].interfaces[1].node = k + 1
               /\ res[k].interfaces[1].client_id = res[k + 1].client_id \o ":usrp_if"
               /\ \E j \in DOMAIN res[k + 1].interfaces :
                      res[k + 1].interfaces[j].client_id = res[k].interfaces[1].client_id
               /\ res[k].interfaces[2].node = k + 2
               /\ \E j \in DOMAIN res[k + 2].interfaces :
                      res[k + 2].interfaces[j].client_id = res[k].interfaces[2].client_id
        /\ \A k1, k2 \in links :
               \A a \in DOMAIN res[k1].interfaces, b \in DOMAIN res[k2].interfaces :
                   (k1 # k2 \/ a # b) => res[k1].interfaces[a] # res[k2].interfaces[b]

\* the case of C10: two rooftop pairs have been built, each with its link
C10_Witness ==
    /\ pc = "done"
    /\ Len(params.x310_radios) = 2
    /\ Count(request.resources, IsLink) = 2

====
